---- MODULE Spec2Model ----
(***************************************************************************)
(* Model of src/function.py: five helpers over pandas tables.              *)
(*                                                                         *)
(* A table (pandas DataFrame) is a record                                  *)
(*   [columns |-> sequence of column names,                                *)
(*    index   |-> sequence of row labels,                                  *)
(*    data    |-> sequence of rows, each a function column name -> cell].  *)
(* Tables built by the callers carry the default RangeIndex 0, 1, 2, ...   *)
(* Strings are TLA+ strings; Python's None is the value None below.        *)
(*                                                                         *)
(* A behaviour is one call: Init picks the function and its arguments,     *)
(* the Call_* step runs the whole function body, and ReRun_update_data     *)
(* feeds update_data its own result again with the same rate table.        *)
(***************************************************************************)
EXTENDS Integers, Sequences, FiniteSets, TLC

VARIABLES pc, op, args, caller, ret, exc, history

vars == <<pc, op, args, caller, ret, exc, history>>

(* ------------------------------ bounds -------------------------------- *)
MaxRows == 3        \* rows of a table given to sort_correlations / parse_state_county
MaxRateRows == 2    \* rows of the rate table given to update_data
MaxCountRows == 2   \* rows of the counts table given to update_data
MaxDict == 3        \* entries of the mapping given to create_correlation_df
YearSpan == 45      \* get_decade is given the years 2000 - YearSpan .. 2000 + YearSpan

(* --------------------------- Python values ---------------------------- *)
\* Python's None: a value that is no cell text of any input table.
None == "None"

Abs(x) == IF x < 0 THEN -x ELSE x

Min(a, b) == IF a < b THEN a ELSE b

Max(a, b) == IF a > b THEN a ELSE b

Range(s) == {s[i] : i \in DOMAIN s}

\* sub in s  (Python's substring test on str)
Contains(s, sub) ==
    \E i \in 1..(Len(s) - Len(sub) + 1) : SubSeq(s, i, i + Len(sub) - 1) = sub

\* All sequences over S of length 0..n.
SeqsUpTo(S, n) == UNION {[1..k -> S] : k \in 0..n}

\* The default index of a freshly built table: 0, 1, ..., n-1.
RangeIndex(n) == [i \in 1..n |-> i - 1]

\* The orderings (bijections) of the set S, as sequences.
Orderings(S) ==
    {p \in [1..Cardinality(S) -> S] : \A i, j \in 1..Cardinality(S) : p[i] = p[j] => i = j}

(* --------------------------- table helpers ---------------------------- *)
HasColumn(df, c) == \E i \in DOMAIN df.columns : df.columns[i] = c

NRows(df) == Len(df.data)

\* df[c] = vals : overwrite column c, or append it as the last column.
SetColumn(df, c, vals) ==
    [columns |-> IF HasColumn(df, c) THEN df.columns ELSE Append(df.columns, c),
     index   |-> df.index,
     data    |-> [i \in 1..NRows(df) |->
                    [k \in Range(df.columns) \cup {c} |->
                        IF k = c THEN vals[i] ELSE df.data[i][k]]]]

\* df.loc[label, c] = v : every row carrying the label gets v in column c.
SetLoc(df, label, c, v) ==
    [df EXCEPT !.data = [i \in 1..NRows(df) |->
                           IF df.index[i] = label
                           THEN [df.data[i] EXCEPT ![c] = v]
                           ELSE df.data[i]]]

\* The rows at the positions pos (a sequence), labels kept.
TakeRows(df, pos) ==
    [columns |-> df.columns,
     index   |-> [i \in 1..Len(pos) |-> df.index[pos[i]]],
     data    |-> [i \in 1..Len(pos) |-> df.data[pos[i]]]]

\* df.tail(n) for n >= 0: the last n rows.
TailRows(df, n) ==
    LET k == IF n >= 0 THEN Min(n, NRows(df)) ELSE Max(NRows(df) + n, 0)
    IN  TakeRows(df, [i \in 1..k |-> NRows(df) - k + i])

\* df.head(n): the first n rows; for negative n all but the last -n rows.
HeadRows(df, n) ==
    LET k == IF n >= 0 THEN Min(n, NRows(df)) ELSE Max(NRows(df) + n, 0)
    IN  TakeRows(df, [i \in 1..k |-> i])

\* The positions, from i on, of the rows whose cell in column c is not None.
RECURSIVE NotNullPos(_, _, _)
NotNullPos(df, c, i) ==
    IF i > NRows(df) THEN <<>>
    ELSE (IF df.data[i][c] # None THEN <<i>> ELSE <<>>) \o NotNullPos(df, c, i + 1)

(* ------------------------------ get_decade ----------------------------- *)
get_decade_overlap_fixed(year) ==
    IF 1970 <= year /\ year < 1980 THEN "1970"
    ELSE IF 1980 <= year /\ year < 1990 THEN "1980"
    ELSE IF 1990 <= year /\ year < 2000 THEN "1990"
    ELSE IF 2000 <= year /\ year < 2008 THEN "2000"
    ELSE IF 2008 <= year /\ year < 2012 THEN "2008-12"
    ELSE IF 2017 <= year /\ year < 2021 THEN "2017-21"
    ELSE None

get_decade(year) ==
    IF 1970 <= year /\ year < 1980 THEN "1970"
    ELSE IF 1980 <= year /\ year < 1990 THEN "1980"
    ELSE IF 1990 <= year /\ year <= 2000 THEN "1990"
    ELSE IF 2000 <= year /\ year < 2008 THEN "2000"
    ELSE IF 2008 <= year /\ year < 2012 THEN "2008-12"
    ELSE IF 2017 <= year /\ year < 2021 THEN "2017-21"
    ELSE None

(* --------------------------- sort_correlations ------------------------- *)
\* df.sort_values(by=..., ascending=True) -- the orders an ascending sort may give.
SortValuesAscending(df, by) ==
    {TakeRows(df, p) : p \in
        {q \in Orderings(1..NRows(df)) :
            \A i \in 1..(NRows(df) - 1) : df.data[q[i]][by] <= df.data[q[i + 1]][by]}}

\* df.sort_values(by=..., ascending=False) with the default kind='quicksort',
\* which is not a stable sort: every order of the rows that is non-increasing
\* in the key is a possible result, rows with equal keys in any order.
SortValuesDescending(df, by) ==
    {TakeRows(df, p) : p \in
        {q \in Orderings(1..NRows(df)) :
            \A i \in 1..(NRows(df) - 1) : df.data[q[i]][by] >= df.data[q[i + 1]][by]}}

\* Line 24: the caller's table after  df['Abs_Correlation'] = df[column].abs()
sort_correlations_df(df, column) ==
    IF HasColumn(df, column)
    THEN SetColumn(df, "Abs_Correlation",
                   [i \in 1..NRows(df) |-> Abs(df.data[i][column])])
    ELSE df

\* Line 24: df[column] raises KeyError when the table has no such column.
sort_correlations_exc(df, column) ==
    IF HasColumn(df, column) THEN "none" ELSE "KeyError"

\* Line 25: the tables the call may return.
sort_correlations(df, column, top_n) ==
    {HeadRows(s, top_n) :
        s \in SortValuesDescending(sort_correlations_df(df, column), "Abs_Correlation")}

(* ------------------------- create_correlation_df ----------------------- *)
\* A Python dict is an insertion-ordered mapping: keys holds its distinct keys
\* in iteration order, val the value of each key.
\* list(reversed(correlation_dict.items())): the pairs in the opposite order.
ItemsReversed(d) ==
    [i \in 1..Len(d.keys) |->
        <<d.keys[Len(d.keys) + 1 - i], d.val[d.keys[Len(d.keys) + 1 - i]]>>]

\* list(correlation_dict.items()): the (key, value) pairs in iteration order.
Items(d) == [i \in 1..Len(d.keys) |-> <<d.keys[i], d.val[d.keys[i]]>>]

\* pd.DataFrame(list of pairs, columns=[year_col, corr_col])
create_correlation_df(correlation_dict, year_col, corr_col) ==
    LET items == Items(correlation_dict)
    IN  [columns |-> <<year_col, corr_col>>,
         index   |-> RangeIndex(Len(items)),
         data    |-> [i \in 1..Len(items) |->
                        [k \in {year_col, corr_col} |->
                            IF k = year_col THEN items[i][1] ELSE items[i][2]]]]

(* --------------------------- parse_state_county ------------------------ *)
\* Lines 102-103: df['State'] = None; df['County'] = None
parse_state_county_init(df) ==
    SetColumn(SetColumn(df, "State", [i \in 1..NRows(df) |-> None]),
              "County", [i \in 1..NRows(df) |-> None])

\* The loop of lines 106-112 with the accumulator never updated (line 109
\* dropped); the parameters are those of parse_state_county_loop below.
RECURSIVE parse_state_county_loop_no_state(_, _, _, _, _)
parse_state_county_loop_no_state(df, rows, location_col, i, current_state) ==
    IF i > NRows(rows) THEN [df |-> df, exc |-> "none"]
    ELSE IF ~HasColumn(rows, location_col) THEN [df |-> df, exc |-> "KeyError"]
    ELSE LET location == rows.data[i][location_col]
             index == rows.index[i]
         IN  IF location = None THEN [df |-> df, exc |-> "TypeError"]
             ELSE IF ~Contains(location, "County")
             THEN parse_state_county_loop_no_state(df, rows, location_col, i + 1,
                                                   current_state)
             ELSE parse_state_county_loop_no_state(
                      SetLoc(SetLoc(df, index, "State", current_state),
                             index, "County", location),
                      rows, location_col, i + 1, current_state)

\* Lines 106-112: the loop from row i on.  rows is what iterrows() reads (the
\* table as it was when the loop began), df the table being written,
\* current_state the accumulator.  Gives the table and the exception raised.
RECURSIVE parse_state_county_loop(_, _, _, _, _)
parse_state_county_loop(df, rows, location_col, i, current_state) ==
    IF i > NRows(rows) THEN [df |-> df, exc |-> "none"]
    ELSE IF ~HasColumn(rows, location_col) THEN [df |-> df, exc |-> "KeyError"]
    ELSE LET location == rows.data[i][location_col]
             index == rows.index[i]
         IN  IF location = None THEN [df |-> df, exc |-> "TypeError"]
             ELSE IF ~Contains(location, "County")
             THEN parse_state_county_loop(df, rows, location_col, i + 1, location)
             ELSE parse_state_county_loop(
                      SetLoc(SetLoc(df, index, "State", current_state),
                             index, "County", location),
                      rows, location_col, i + 1, current_state)

\* Lines 102-112: the caller's table and the exception after the loop.
parse_state_county_run(df, location_col) ==
    parse_state_county_loop(parse_state_county_init(df), parse_state_county_init(df),
                            location_col, 1, "")

\* Line 114: df[df['County'].notnull()]
parse_state_county(df, location_col) ==
    LET after == parse_state_county_run(df, location_col).df
    IN  TakeRows(after, NotNullPos(after, "County", 1))

(* ------------------------------ update_data ---------------------------- *)
\* set(table['county_state'])
KeySet(df) == {df.data[i]["county_state"] : i \in 1..NRows(df)}

\* Line 182 without the subtraction: every key of the rate table.
missing_counties_all(county_rate, county_counts) == KeySet(county_rate)

\* Line 182 with ^ for -: the keys in exactly one of the two tables.
missing_counties_symmetric(county_rate, county_counts) ==
    (KeySet(county_rate) \ KeySet(county_counts))
        \cup (KeySet(county_counts) \ KeySet(county_rate))

\* Line 182: set(county_rate['county_state']) - set(county_counts['county_state'])
missing_counties(county_rate, county_counts) ==
    KeySet(county_rate) \ KeySet(county_counts)

\* Line 182 looking the column up in the rate table only.
update_data_exc_rate_only(county_rate, county_counts) ==
    IF HasColumn(county_rate, "county_state") THEN "none" ELSE "KeyError"

\* Line 182: either lookup raises KeyError when the column is absent.
update_data_exc(county_rate, county_counts) ==
    IF HasColumn(county_rate, "county_state") /\ HasColumn(county_counts, "county_state")
    THEN "none" ELSE "KeyError"

\* Line 185: the columns of the counts table other than county_state, in order.
year_columns(county_counts) ==
    SelectSeq(county_counts.columns, LAMBDA col : col # "county_state")

\* Lines 186-189: the table of synthesized rows, for one order of the set.
missing_df(county_counts, order) ==
    [columns |-> Append(year_columns(county_counts), "county_state"),
     index   |-> RangeIndex(Len(order)),
     data    |-> [i \in 1..Len(order) |->
                    [k \in Range(county_counts.columns) |->
                        IF k = "county_state" THEN order[i] ELSE 0]]]

\* pd.concat([b, a], ignore_index=True): the operands swapped.
ConcatSwapped(a, b) ==
    [columns |-> a.columns,
     index   |-> RangeIndex(NRows(a) + NRows(b)),
     data    |-> b.data \o a.data]

\* pd.concat([a, b], ignore_index=True) for b's columns among a's.
Concat(a, b) ==
    [columns |-> a.columns,
     index   |-> RangeIndex(NRows(a) + NRows(b)),
     data    |-> a.data \o b.data]

\* Lines 182-194: the tables the call may return; list(set) may give the
\* missing keys in any order.
update_data(county_rate, county_counts) ==
    {Concat(county_counts, missing_df(county_counts, order)) :
        order \in Orderings(missing_counties(county_rate, county_counts))}

(* ------------------------------- inputs -------------------------------- *)
CorrValues == {-2, -1, 0, 1, 2}

\* Tables for sort_correlations: a Year column and a Correlation column.
SortTables ==
    {[columns |-> <<"Year", "Correlation">>,
      index   |-> RangeIndex(Len(v)),
      data    |-> [i \in 1..Len(v) |->
                     [k \in {"Year", "Correlation"} |->
                         IF k = "Year" THEN 1999 + i ELSE v[i]]]] :
        v \in SeqsUpTo(CorrValues, MaxRows)}

\* "Corr" is a column no SortTable has.
SortColumns == {"Correlation", "Corr"}

SortArgs == [df : SortTables, column : SortColumns, top_n : -1..(MaxRows + 1)]

\* Location texts: state rows, county rows, and a text with a lower-case "county".
Locations == {"Texas", "Ohio", "Travis County, TX", "Lake County, OH", "Orange county"}

ParseTables ==
    {[columns |-> <<"county_or_state_name">>,
      index   |-> RangeIndex(Len(v)),
      data    |-> [i \in 1..Len(v) |-> [k \in {"county_or_state_name"} |-> v[i]]]] :
        v \in SeqsUpTo(Locations, MaxRows)}

\* Only "county_or_state_name" is a column of the ParseTables.
ParseColumns == {"county_or_state_name", "location", "State", "County"}

ParseArgs == [df : ParseTables, location_col : ParseColumns]

Periods == {"1970", "1980", "2000", "2008-12"}

\* Python dicts: distinct keys in insertion order, one value per key.
Dicts ==
    UNION {[keys : {ks}, val : [Range(ks) -> CorrValues]] :
        ks \in {q \in SeqsUpTo(Periods, MaxDict) :
                   \A i, j \in DOMAIN q : q[i] = q[j] => i = j}}

ColumnNamePairs == {<<"Year", "Correlation">>, <<"Decade", "Corr">>}

CreateArgs == [correlation_dict : Dicts, names : ColumnNamePairs]

CountyKeys == {"County A, State1", "County B, State2", "County C, State3"}

\* "county" stands for a misnamed key column.
KeyColumns == {"county_state", "county"}

RateTables ==
    {[columns |-> <<kc, "unemployment_rate">>,
      index   |-> RangeIndex(Len(v)),
      data    |-> [i \in 1..Len(v) |->
                     [k \in {kc, "unemployment_rate"} |->
                         IF k = kc THEN v[i] ELSE 4 + i]]] :
        v \in SeqsUpTo(CountyKeys, MaxRateRows), kc \in KeyColumns}

CountValues == {0, 3}

CountsTables ==
    {[columns |-> <<kc, "2020", "2021">>,
      index   |-> RangeIndex(Len(v)),
      data    |-> [i \in 1..Len(v) |->
                     [k \in {kc, "2020", "2021"} |->
                         IF k = kc THEN v[i][1]
                         ELSE IF k = "2020" THEN v[i][2] ELSE v[i][2] + 1]]] :
        v \in SeqsUpTo(CountyKeys \X CountValues, MaxCountRows), kc \in KeyColumns}

UpdateArgs == [county_rate : RateTables, county_counts : CountsTables]

Years == (2000 - YearSpan)..(2000 + YearSpan)

(* ---------------------------- state machine ---------------------------- *)
\* pc      "call" before the function runs, "done" after it returned or raised
\* op      the function called
\* args    the arguments as passed (the tables as they were at the call)
\* caller  the caller's table objects as they are now
\* ret     the value returned, None when nothing was returned
\* exc     the exception raised, "none" when the call returned
\* history the arguments of the earlier calls of this behaviour
Init ==
    /\ pc = "call"
    /\ ret = None
    /\ exc = "none"
    /\ history = <<>>
    /\ \/ op = "get_decade" /\ args \in [year : Years] /\ caller = <<>>
       \/ op = "create_correlation_df" /\ args \in CreateArgs /\ caller = <<>>
       \/ op = "sort_correlations" /\ args \in SortArgs /\ caller = [df |-> args.df]
       \/ op = "parse_state_county" /\ args \in ParseArgs /\ caller = [df |-> args.df]
       \/ op = "update_data" /\ args \in UpdateArgs
            /\ caller = [county_rate |-> args.county_rate,
                         county_counts |-> args.county_counts]

Call_get_decade ==
    /\ pc = "call" /\ op = "get_decade"
    /\ ret' = get_decade(args.year)
    /\ exc' = "none"
    /\ pc' = "done"
    /\ UNCHANGED <<op, args, caller, history>>

Call_create_correlation_df ==
    /\ pc = "call" /\ op = "create_correlation_df"
    /\ ret' = create_correlation_df(args.correlation_dict, args.names[1], args.names[2])
    /\ exc' = "none"
    /\ pc' = "done"
    /\ UNCHANGED <<op, args, caller, history>>

Call_sort_correlations ==
    /\ pc = "call" /\ op = "sort_correlations"
    /\ exc' = sort_correlations_exc(args.df, args.column)
    /\ caller' = [df |-> sort_correlations_df(args.df, args.column)]
    /\ ret' \in IF sort_correlations_exc(args.df, args.column) = "none"
                THEN sort_correlations(args.df, args.column, args.top_n)
                ELSE {None}
    /\ pc' = "done"
    /\ UNCHANGED <<op, args, history>>

Call_parse_state_county ==
    /\ pc = "call" /\ op = "parse_state_county"
    /\ exc' = parse_state_county_run(args.df, args.location_col).exc
    /\ caller' = [df |-> parse_state_county_run(args.df, args.location_col).df]
    /\ ret' = IF parse_state_county_run(args.df, args.location_col).exc = "none"
              THEN parse_state_county(args.df, args.location_col)
              ELSE None
    /\ pc' = "done"
    /\ UNCHANGED <<op, args, history>>

Call_update_data ==
    /\ pc = "call" /\ op = "update_data"
    /\ exc' = update_data_exc(args.county_rate, args.county_counts)
    /\ ret' \in IF update_data_exc(args.county_rate, args.county_counts) = "none"
                THEN update_data(args.county_rate, args.county_counts)
                ELSE {None}
    /\ pc' = "done"
    /\ UNCHANGED <<op, args, caller, history>>

\* counts = update_data(rate, counts) run once more on its own result.
ReRun_update_data ==
    /\ pc = "done" /\ op = "update_data" /\ exc = "none" /\ history = <<>>
    /\ history' = Append(history, args)
    /\ args' = [county_rate |-> args.county_rate, county_counts |-> ret]
    /\ caller' = [county_rate |-> caller.county_rate, county_counts |-> ret]
    /\ exc' = update_data_exc(args.county_rate, ret)
    /\ ret' \in update_data(args.county_rate, ret)
    /\ pc' = "done"
    /\ UNCHANGED op

Next ==
    \/ Call_get_decade
    \/ Call_create_correlation_df
    \/ Call_sort_correlations
    \/ Call_parse_state_county
    \/ Call_update_data
    \/ ReRun_update_data

Spec == Init /\ [][Next]_vars

Returned(f) == pc = "done" /\ op = f /\ exc = "none"

(* ================================ claims =============================== *)

(* ------------------------------- C1 ------------------------------------ *)
\* The bands of the specification, in precedence order; hi is the last year
\* of the band.
Bands ==
    << [lo |-> 1970, hi |-> 1979, label |-> "1970"],
       [lo |-> 1980, hi |-> 1989, label |-> "1980"],
       [lo |-> 1990, hi |-> 2000, label |-> "1990"],
       [lo |-> 2000, hi |-> 2007, label |-> "2000"],
       [lo |-> 2008, hi |-> 2011, label |-> "2008-12"],
       [lo |-> 2017, hi |-> 2020, label |-> "2017-21"] >>

BandsContaining(year) ==
    {b \in DOMAIN Bands : Bands[b].lo <= year /\ year <= Bands[b].hi}

FirstBand(year) ==
    IF BandsContaining(year) = {} THEN None
    ELSE Bands[CHOOSE b \in BandsContaining(year) :
                   \A c \in BandsContaining(year) : b <= c].label

DecadeExamples ==
    {<<1969, None>>, <<1979, "1970">>, <<1980, "1980">>, <<1999, "1990">>,
     <<2000, "1990">>, <<2001, "2000">>, <<2007, "2000">>, <<2008, "2008-12">>,
     <<2011, "2008-12">>, <<2012, None>>, <<2013, None>>, <<2014, None>>,
     <<2015, None>>, <<2016, None>>, <<2017, "2017-21">>, <<2020, "2017-21">>,
     <<2021, None>>}

\* C1: get_decade returns, without raising, the label of the first band in
\* precedence order that contains the year, None when no band contains it,
\* and the listed boundary years get the listed labels.
C1_get_decade_first_band ==
    (pc = "done" /\ op = "get_decade") =>
        /\ exc = "none"
        /\ ret = FirstBand(args.year)
        /\ \A e \in DecadeExamples : args.year = e[1] => ret = e[2]

\* The year 2000, which two bands contain, resolved to the earlier band.
C1_Witness == pc = "done" /\ op = "get_decade" /\ args.year = 2000 /\ ret = "1990"

(* ------------------------------- C2 ------------------------------------ *)
\* The position in the input table of the row labelled l.
PosOfLabel(df, l) == CHOOSE j \in 1..NRows(df) : df.index[j] = l

AbsOfInput(j) == Abs(args.df.data[j][args.column])

\* C2: for top_n >= 0 the result has min(top_n, rows) rows, each a different
\* input row with its original columns plus Abs_Correlation = |value|, in
\* non-increasing order of Abs_Correlation, and no left-out row has a larger
\* absolute value than a returned one.
C2_sort_top_n ==
    (Returned("sort_correlations") /\ args.top_n >= 0) =>
        /\ NRows(ret) = Min(args.top_n, NRows(args.df))
        /\ ret.columns = Append(args.df.columns, "Abs_Correlation")
        /\ \A i, j \in 1..NRows(ret) : ret.index[i] = ret.index[j] => i = j
        /\ \A i \in 1..NRows(ret) :
              /\ ret.index[i] \in Range(args.df.index)
              /\ \A c \in Range(args.df.columns) :
                    ret.data[i][c] = args.df.data[PosOfLabel(args.df, ret.index[i])][c]
              /\ ret.data[i]["Abs_Correlation"]
                    = AbsOfInput(PosOfLabel(args.df, ret.index[i]))
        /\ \A i \in 1..(NRows(ret) - 1) :
              ret.data[i]["Abs_Correlation"] >= ret.data[i + 1]["Abs_Correlation"]
        /\ \A i \in 1..NRows(ret) : \A j \in 1..NRows(args.df) :
              args.df.index[j] \notin Range(ret.index)
                  => ret.data[i]["Abs_Correlation"] >= AbsOfInput(j)

\* A real cut: two rows kept, in an order other than the input's, one left out.
C2_Witness ==
    /\ Returned("sort_correlations") /\ args.top_n = 2 /\ NRows(args.df) = 3
    /\ NRows(ret) = 2
    /\ ret.index[1] > ret.index[2]
    /\ ret.data[1]["Abs_Correlation"] > ret.data[2]["Abs_Correlation"]

StableOrder ==
    CHOOSE q \in Orderings(1..NRows(args.df)) :
        \A i \in 1..(NRows(args.df) - 1) :
            \/ AbsOfInput(q[i]) > AbsOfInput(q[i + 1])
            \/ AbsOfInput(q[i]) = AbsOfInput(q[i + 1]) /\ q[i] < q[i + 1]

LocationAt(j) == args.df.data[j][args.location_col]

IsCountyRow(j) == Contains(LocationAt(j), "County")

\* The location of the nearest row before j that is no county row, else "".
NearestState(j) ==
    IF \A k \in 1..(j - 1) : IsCountyRow(k) THEN ""
    ELSE LocationAt(CHOOSE k \in 1..(j - 1) :
                        ~IsCountyRow(k) /\ \A m \in (k + 1)..(j - 1) : IsCountyRow(m))

\* C4: given a table with the location column, parse_state_county returns
\* exactly the county rows in input order, each with its original column,
\* County = its location and State = the nearest preceding non-county location
\* ("" when there is none); no county rows gives an empty result.
C4_parse_state_county ==
    (pc = "done" /\ op = "parse_state_county"
        /\ HasColumn(args.df, args.location_col)) =>
        /\ exc = "none"
        /\ ret.columns = args.df.columns \o <<"State", "County">>
        /\ Range(ret.index)
              = {args.df.index[j] : j \in {k \in 1..NRows(args.df) : IsCountyRow(k)}}
        /\ \A i \in 1..(NRows(ret) - 1) : ret.index[i] < ret.index[i + 1]
        /\ \A i \in 1..NRows(ret) :
              LET j == PosOfLabel(args.df, ret.index[i])
              IN  /\ \A c \in Range(args.df.columns) :
                        ret.data[i][c] = args.df.data[j][c]
                  /\ ret.data[i]["County"] = LocationAt(j)
                  /\ ret.data[i]["State"] = NearestState(j)
        /\ (\A j \in 1..NRows(args.df) : ~IsCountyRow(j)) => NRows(ret) = 0

\* A county row before any state row and one after a state row.
C4_Witness ==
    /\ Returned("parse_state_county") /\ NRows(args.df) = 3 /\ NRows(ret) = 2
    /\ ret.data[1]["State"] = ""
    /\ ret.data[2]["State"] = "Ohio"
    /\ ret.data[2]["County"] = "Lake County, OH"

(* ------------------------------- C5 ------------------------------------ *)
KeysOf(df) == {df.data[i]["county_state"] : i \in 1..NRows(df)}

\* The keys that occur in the rate table and not in the counts table.
MissingKeys ==
    {k \in KeysOf(args.county_rate) : k \notin KeysOf(args.county_counts)}

\* The positions of the result after the rows of the counts table.
AddedPos == (NRows(args.county_counts) + 1)..NRows(ret)

\* C5: the added rows are one per distinct key of the rate table that the
\* counts table lacks, each with 0 in every year column; none is added for a
\* key the counts table has; the result has |counts| + |missing keys| rows
\* and holds every key of the rate table.
C5_update_data_adds_missing ==
    Returned("update_data") =>
        /\ NRows(ret) = NRows(args.county_counts) + Cardinality(MissingKeys)
        /\ {ret.data[i]["county_state"] : i \in AddedPos} = MissingKeys
        /\ \A i, j \in AddedPos :
              ret.data[i]["county_state"] = ret.data[j]["county_state"] => i = j
        /\ \A i \in AddedPos : \A c \in Range(args.county_counts.columns) :
              c # "county_state" => ret.data[i][c] = 0
        /\ \A k \in KeysOf(args.county_rate) : k \in KeysOf(ret)

\* One key missing although the rate table names it twice: one row added.
C5_Witness ==
    /\ Returned("update_data") /\ history = <<>>
    /\ NRows(args.county_rate) = 2
    /\ args.county_rate.data[1]["county_state"] = args.county_rate.data[2]["county_state"]
    /\ NRows(args.county_counts) = 1
    /\ NRows(ret) = 2
    /\ ret.data[2]["2020"] = 0 /\ ret.data[2]["2021"] = 0

(* ------------------------------- C6 ------------------------------------ *)
\* C6: update_data run again on its own result, with the same rate table,
\* returns the rows of that result in the same order.
C6_update_data_idempotent ==
    (pc = "done" /\ op = "update_data" /\ history # <<>>) =>
        /\ exc = "none"
        /\ args.county_rate = history[1].county_rate
        /\ ret.columns = args.county_counts.columns
        /\ ret.data = args.county_counts.data

\* A second run after a first run that added two rows.
C6_Witness ==
    /\ pc = "done" /\ op = "update_data" /\ history # <<>>
    /\ NRows(args.county_counts) = NRows(history[1].county_counts) + 2
    /\ NRows(ret) = NRows(args.county_counts)

(* ------------------------------- C7 ------------------------------------ *)
\* C7: the result begins with the rows of the counts table, unchanged and in
\* order, whatever their keys; every row after them is a synthesized row;
\* with no key missing the result is the counts table.
C7_update_data_keeps_counts ==
    Returned("update_data") =>
        /\ ret.columns = args.county_counts.columns
        /\ NRows(ret) >= NRows(args.county_counts)
        /\ \A i \in 1..NRows(args.county_counts) :
              ret.data[i] = args.county_counts.data[i]
        /\ \A i \in AddedPos :
              ret.data[i]["county_state"] \notin KeysOf(args.county_counts)
        /\ MissingKeys = {} => ret.data = args.county_counts.data

\* Counts rows with a duplicated key that the rate table lacks, then a
\* synthesized row.
C7_Witness ==
    /\ Returned("update_data") /\ history = <<>>
    /\ NRows(args.county_counts) = 2
    /\ args.county_counts.data[1]["county_state"]
          = args.county_counts.data[2]["county_state"]
    /\ args.county_counts.data[1]["county_state"] \notin KeysOf(args.county_rate)
    /\ args.county_counts.data[1]["2020"] = 3
    /\ NRows(ret) = 3

(* ------------------------------- C8 ------------------------------------ *)
\* C8: create_correlation_df returns a table of the two named columns with
\* one row per entry of the mapping, in the mapping's iteration order, each
\* holding the entry's key and value.
C8_create_correlation_df ==
    (pc = "done" /\ op = "create_correlation_df") =>
        /\ exc = "none"
        /\ ret.columns = args.names
        /\ NRows(ret) = Len(args.correlation_dict.keys)
        /\ \A i \in 1..NRows(ret) :
              /\ ret.data[i][args.names[1]] = args.correlation_dict.keys[i]
              /\ ret.data[i][args.names[2]]
                    = args.correlation_dict.val[args.correlation_dict.keys[i]]

\* Three entries inserted out of chronological order, with different values.
C8_Witness ==
    /\ pc = "done" /\ op = "create_correlation_df" /\ NRows(ret) = 3
    /\ args.names = <<"Decade", "Corr">>
    /\ ret.data[1]["Decade"] = "2000" /\ ret.data[1]["Corr"] = -1
    /\ ret.data[2]["Decade"] = "1970" /\ ret.data[2]["Corr"] = 2
    /\ ret.data[3]["Decade"] = "1980" /\ ret.data[3]["Corr"] = 0

(* ------------------------------- C9 ------------------------------------ *)
\* The call named a column that a table passed to it does not have.
ColumnMissing ==
    \/ op = "sort_correlations" /\ ~HasColumn(args.df, args.column)
    \/ op = "parse_state_county" /\ ~HasColumn(args.df, args.location_col)
    \/ op = "update_data" /\ (\/ ~HasColumn(args.county_rate, "county_state")
                               \/ ~HasColumn(args.county_counts, "county_state"))

\* C9 as stated: a call naming a missing column raises a key error and
\* returns nothing, for every table, the empty one included.
C9_missing_column_key_error ==
    (pc = "done" /\ ColumnMissing) => (exc = "KeyError" /\ ret = None)

\* C9 amended: sort_correlations and update_data raise a key error for every
\* table, the empty one included.  parse_state_county raises it only when the
\* table has a row and the name is neither "State" nor "County"; on a table
\* with no rows it returns an empty table, and with a row and the name "State"
\* or "County" (columns it has just created, holding None) it raises a type
\* error.
C9_missing_column_amended ==
    (pc = "done" /\ ColumnMissing) =>
        /\ op \in {"sort_correlations", "update_data"}
              => (exc = "KeyError" /\ ret = None)
        /\ (/\ op = "parse_state_county" /\ NRows(args.df) > 0
            /\ args.location_col \notin {"State", "County"})
              => (exc = "KeyError" /\ ret = None)
        /\ (/\ op = "parse_state_county" /\ NRows(args.df) > 0
            /\ args.location_col \in {"State", "County"})
              => (exc = "TypeError" /\ ret = None)
        /\ (op = "parse_state_county" /\ NRows(args.df) = 0)
              => (exc = "none" /\ NRows(ret) = 0)

\* parse_state_county given no rows and a column name the table lacks.
C9_Witness ==
    /\ pc = "done" /\ op = "parse_state_county"
    /\ args.location_col = "location" /\ NRows(args.df) = 0
    /\ exc = "none" /\ NRows(ret) = 0

(* ------------------------------- C10 ----------------------------------- *)
\* C10: after a table function returned or raised, the tables the caller
\* passed have the columns and the values they had before the call.
C10_inputs_unchanged ==
    pc = "done" =>
        /\ op \in {"sort_correlations", "parse_state_county"} => caller.df = args.df
        /\ op = "update_data" =>
              /\ caller.county_rate = args.county_rate
              /\ caller.county_counts = args.county_counts

====
